---- MODULE Spec2Model ----
(***************************************************************************)
(* Swing Trade Basket Generator: market data cache, trade validation,      *)
(* client eligibility, share allocation, basket assembly, Excel output.    *)
(*                                                                         *)
(* Numbers.  Python floats are modelled as exact integers in whole          *)
(* currency units (prices, capital, liquidity) and whole shares.  The      *)
(* decimal factors 0.50, 0.08, 1.33 and 0.01 are kept as integers over     *)
(* PercentBase, so x * 0.50 is x * 50 / 100 computed exactly.  Python's    *)
(* int(x) truncates toward zero; TruncDiv models it.                        *)
(*                                                                         *)
(* Rounding.  The quotient and the product of calculate_share_quantity are *)
(* float operations: each result is rounded to the nearest value with      *)
(* MantissaBits significant bits, ties to even (binary64 has 53; the model *)
(* keeps fewer, as the checker's integers are 32 bits wide).  Values below *)
(* 2^MantissaBits are exact.                                               *)
(*                                                                         *)
(* Strings.  A ticker is a sequence of characters; ".SA" and ".sa" are      *)
(* kept as single tokens so that the substring test of get_ticker_data is  *)
(* a membership test.                                                      *)
(***************************************************************************)
EXTENDS Integers, Sequences, FiniteSets, TLC

VARIABLES
    cache,      \* MarketDataService.cache: normalized ticker -> snapshot
    files,      \* the output directory: file name -> the orders written
    generated,  \* history: successful generate_excel calls per ticker
    now,        \* the wall clock, in seconds
    resp,       \* the last response of the HTTP API (or of a direct call)
    input,      \* the arguments of a direct call of a service method
    pc          \* "ready" before a direct call, "done" after it

vars == <<cache, files, generated, now, resp, input, pc>>

(***************************************************************************)
(* Bounds of the model.                                                    *)
(***************************************************************************)
MaxClients == 2
MaxClock == 2
MaxGenerations == 3
MantissaBits == 16

(***************************************************************************)
(* Program constants.                                                      *)
(***************************************************************************)
PercentBase == 100
MIN_NET_TOTAL == 20000
CAPITAL_PERCENT_PER_OPERATION == 50
MIN_LIQUIDITY == 30000000
MAX_STOP_LOSS == 8
MIN_RISK_REWARD == 133
MAX_VOLUME_PERCENT == 1

(***************************************************************************)
(* Arithmetic helpers.                                                     *)
(***************************************************************************)
Abs(x) == IF x < 0 THEN -x ELSE x

Min(a, b) == IF a <= b THEN a ELSE b

\* Python int(a / b) for b > 0: the quotient truncated toward zero.
TruncDiv(a, b) == IF a >= 0 THEN a \div b ELSE -((-a) \div b)

RECURSIVE Pow2(_)
Pow2(e) == IF e <= 0 THEN 1 ELSE 2 * Pow2(e - 1)

RECURSIVE BitLength(_)
BitLength(n) == IF n = 0 THEN 0 ELSE 1 + BitLength(n \div 2)

\* The float nearest to the natural n (to n plus a fraction below one unit
\* when sticky), ties to even.
RoundNat(n, sticky) ==
    IF BitLength(n) <= MantissaBits
    THEN n
    ELSE LET unit == Pow2(BitLength(n) - MantissaBits)
             m == n \div unit
             rem == n % unit
             up == \/ rem * 2 > unit
                   \/ rem * 2 = unit /\ (sticky \/ m % 2 = 1)
         IN  (IF up THEN m + 1 ELSE m) * unit

\* Float product a * b of two exactly represented integers.
FloatMul(a, b) ==
    IF (a < 0) = (b < 0)
    THEN RoundNat(Abs(a) * Abs(b), FALSE)
    ELSE -RoundNat(Abs(a) * Abs(b), FALSE)

\* int(n / d) for n >= 0, d > 0 with the float quotient n / d: the quotient
\* is rounded before int() truncates it, so a quotient within half a unit in
\* the last place below q + 1 yields q + 1.
IntOfQuotient(n, d) ==
    LET q == n \div d
        r == n % d
        b == BitLength(q)
        K == Pow2(MantissaBits - b + 1)
        up == \/ d - r <= (d - 1) \div K
              \/ (d % K = 0 /\ d - r = d \div K
                    /\ (b < MantissaBits \/ q % 2 = 1))
    IN  IF b > MantissaBits THEN RoundNat(q, r > 0)
        ELSE IF r > 0 /\ up THEN q + 1
        ELSE q

\* Python int(a / b) with float operands, b > 0.
FloatDivInt(a, b) ==
    IF a >= 0 THEN IntOfQuotient(a, b) ELSE -IntOfQuotient(-a, b)

(***************************************************************************)
(* Tickers.                                                                *)
(***************************************************************************)
UpperChar(c) ==
    CASE c = "p" -> "P"
      [] c = "v" -> "V"
      [] c = ".sa" -> ".SA"
      [] OTHER -> c

\* str.upper()
Upper(t) == [i \in 1..Len(t) |-> UpperChar(t[i])]

RECURSIVE LStrip(_)
LStrip(t) == IF t # <<>> /\ Head(t) = " " THEN LStrip(Tail(t)) ELSE t

RECURSIVE RStrip(_)
RStrip(t) ==
    IF t # <<>> /\ t[Len(t)] = " " THEN RStrip(SubSeq(t, 1, Len(t) - 1)) ELSE t

\* str.strip()
Strip(t) == RStrip(LStrip(t))

\* '.SA' in ticker.upper()
HasSuffixSA(t) == \E i \in 1..Len(t) : Upper(t)[i] = ".SA"

\* ticker_b3 = ticker if '.SA' in ticker.upper() else f"{ticker}.SA"
TickerB3(t) == IF HasSuffixSA(t) THEN t ELSE Append(t, ".SA")

(***************************************************************************)
(* BasketCalculator.                                                       *)
(* A client is [account_number, net_total, net_available]; the advisor,    *)
(* name and strategy strings of models.Client take no part in any          *)
(* computation and are left out.                                           *)
(***************************************************************************)

\* Mutant of BelowMinimum: the boundary client (net_total = 20000) is refused.
BelowMinimumStrict(client) == client.net_total <= MIN_NET_TOTAL

\* if client.net_total < self.MIN_NET_TOTAL
BelowMinimum(client) == client.net_total < MIN_NET_TOTAL

\* required_amount = net_total * 0.50; if client.net_available < required_amount
InsufficientBalance(client) ==
    client.net_available * PercentBase
        < client.net_total * CAPITAL_PERCENT_PER_OPERATION

\* The message appended for one client; its kind stands for the text.
EligibilityMessage(client) ==
    IF BelowMinimum(client)
    THEN [kind |-> "insufficient_net_total", account_number |-> client.account_number]
    ELSE IF InsufficientBalance(client)
         THEN [kind |-> "insufficient_balance", account_number |-> client.account_number]
         ELSE [kind |-> "eligible", account_number |-> client.account_number]

RECURSIVE FilterLoop(_, _, _)
FilterLoop(clients, eligible, messages) ==
    IF clients = <<>>
    THEN [eligible |-> eligible, messages |-> messages]
    ELSE LET client == Head(clients)
             msg == EligibilityMessage(client)
         IN  IF BelowMinimum(client) \/ InsufficientBalance(client)
             THEN FilterLoop(Tail(clients), eligible, Append(messages, msg))
             ELSE FilterLoop(Tail(clients), Append(eligible, client),
                             Append(messages, msg))

\* filter_eligible_clients(clients) -> (eligible, messages)
filter_eligible_clients(clients) == FilterLoop(clients, <<>>, <<>>)

\* ideal_quantity = int(net_total * 0.50 / entry_price)
IdealQuantity(client, entry_price) ==
    FloatDivInt(client.net_total * CAPITAL_PERCENT_PER_OPERATION,
                entry_price * PercentBase)

\* final_quantity = min(ideal_quantity, max_quantity), before the safety check
SizedQuantity(client, entry_price, max_quantity) ==
    Min(IdealQuantity(client, entry_price), max_quantity)

\* if invested_amount > client.net_available
ClampTaken(client, entry_price, max_quantity) ==
    FloatMul(SizedQuantity(client, entry_price, max_quantity), entry_price)
        > client.net_available

\* calculate_share_quantity(client, entry_price, max_quantity)
\*   -> (final_quantity, invested_amount)
calculate_share_quantity(client, entry_price, max_quantity) ==
    LET final_quantity ==
            IF ClampTaken(client, entry_price, max_quantity)
            THEN FloatDivInt(client.net_available, entry_price)
            ELSE SizedQuantity(client, entry_price, max_quantity)
    IN  [quantity |-> final_quantity,
         invested_amount |-> FloatMul(final_quantity, entry_price)]

\* ClientOrder(...): the fields generate_basket sets; the others keep their
\* defaults ("hoje", "position", "compra", "").
MakeOrder(client, trade, alloc) ==
    [account_number |-> client.account_number,
     ticker |-> trade.ticker,
     quantity |-> alloc.quantity,
     price_type |-> "l",
     limit_price |-> trade.entry_price,
     invested_amount |-> alloc.invested_amount]

RECURSIVE BasketLoop(_, _, _, _)
BasketLoop(trade, clients, validation, orders) ==
    IF clients = <<>>
    THEN orders
    ELSE LET client == Head(clients)
             alloc == calculate_share_quantity(client, trade.entry_price,
                                               validation.max_quantity)
         IN  IF alloc.quantity = 0
             THEN BasketLoop(trade, Tail(clients), validation, orders)
             ELSE BasketLoop(trade, Tail(clients), validation,
                             Append(orders, MakeOrder(client, trade, alloc)))

\* generate_basket(trade, clients, validation) -> orders
generate_basket(trade, clients, validation) ==
    BasketLoop(trade, clients, validation, <<>>)

(***************************************************************************)
(* BasketCalculator.calculate_summary.  average_investment is the fraction *)
(* sum / count; min and max are taken over the amounts kept.               *)
(***************************************************************************)
RECURSIVE SumSeq(_)
SumSeq(q) == IF q = <<>> THEN 0 ELSE Head(q) + SumSeq(Tail(q))

\* if order.invested_amount: an order built without an invested amount
\* (Optional[float] = None) is a record without that field; None and 0 are
\* both false.
HasAmount(order) ==
    "invested_amount" \in DOMAIN order /\ order.invested_amount # 0

RECURSIVE Truthy(_)
\* [order.invested_amount for order in orders if order.invested_amount]
Truthy(orders) ==
    IF orders = <<>> THEN <<>>
    ELSE IF HasAmount(Head(orders))
         THEN <<Head(orders).invested_amount>> \o Truthy(Tail(orders))
         ELSE Truthy(Tail(orders))

SeqMin(q) == CHOOSE x \in {q[i] : i \in 1..Len(q)} :
                 \A i \in 1..Len(q) : x <= q[i]

SeqMax(q) == CHOOSE x \in {q[i] : i \in 1..Len(q)} :
                 \A i \in 1..Len(q) : x >= q[i]

\* calculate_summary(orders); raised is TRUE when sum / len divides by zero.
calculate_summary(orders) ==
    IF orders = <<>>
    THEN [raised |-> FALSE, total_orders |-> 0, total_shares |-> 0,
          total_invested |-> 0, average_investment |-> [num |-> 0, den |-> 1],
          min_investment |-> 0, max_investment |-> 0]
    ELSE LET amounts == Truthy(orders)
         IN  IF amounts = <<>>
             THEN [raised |-> TRUE]
             ELSE [raised |-> FALSE,
                   total_orders |-> Len(orders),
                   total_shares |-> SumSeq([i \in 1..Len(orders) |-> orders[i].quantity]),
                   total_invested |-> SumSeq(amounts),
                   average_investment |-> [num |-> SumSeq(amounts), den |-> Len(amounts)],
                   min_investment |-> SeqMin(amounts),
                   max_investment |-> SeqMax(amounts)]

(***************************************************************************)
(* MarketDataService.                                                      *)
(* The upstream provider answers one call with one of: an exception        *)
(* ("raise"), an empty history ("empty"), or a history ("data") given by   *)
(* the two means the service takes of it, avg_volume and avg_price.        *)
(***************************************************************************)
None == [kind |-> "None"]

EmptyCache == <<>>

\* Mutant of CacheHit: the cache is never consulted.
CacheHitNever(c, ticker_b3) == FALSE

\* if ticker_b3 in self.cache
CacheHit(c, ticker_b3) == ticker_b3 \in DOMAIN c

\* The dictionary built from a non-empty history.
Snapshot(ticker, upstream) ==
    [kind |-> "snapshot",
     ticker |-> ticker,
     ticker_b3 |-> TickerB3(ticker),
     average_daily_volume |-> upstream.avg_volume,
     daily_liquidity |-> upstream.avg_volume * upstream.avg_price]

\* self.cache[ticker_b3] = (data, None)
CachePut(c, ticker_b3, data) ==
    [k \in DOMAIN c \cup {ticker_b3} |-> IF k = ticker_b3 THEN data ELSE c[k]]

\* get_ticker_data(ticker): data is the value returned, cache the cache
\* afterwards, fetched whether the upstream provider was called, raised
\* whether an exception was caught.
get_ticker_data(c, ticker, upstream) ==
    LET ticker_b3 == TickerB3(ticker)
    IN  IF CacheHit(c, ticker_b3)
        THEN [data |-> c[ticker_b3], cache |-> c, fetched |-> FALSE, raised |-> FALSE]
        ELSE IF upstream.kind = "raise"
        THEN [data |-> None, cache |-> c, fetched |-> TRUE, raised |-> TRUE]
        ELSE IF upstream.kind = "empty"
        THEN [data |-> None, cache |-> c, fetched |-> TRUE, raised |-> FALSE]
        ELSE [data |-> Snapshot(ticker, upstream),
              cache |-> CachePut(c, ticker_b3, Snapshot(ticker, upstream)),
              fetched |-> TRUE, raised |-> FALSE]

\* clear_cache(): self.cache.clear()
clear_cache(c) == EmptyCache

(***************************************************************************)
(* models.TradeInput: the field constraints and validators.                *)
(***************************************************************************)
\* validate_ticker: v.upper().strip()
NormalizedTicker(t) == Strip(Upper(t))

\* Mutant of TradeInputValid: a stop equal to the entry price is let through.
TradeInputValidLoose(raw) ==
    /\ NormalizedTicker(raw.ticker) # <<>>
    /\ raw.entry_price > 0
    /\ raw.stop_loss > 0
    /\ raw.stop_loss <= raw.entry_price
    /\ raw.target > 0
    /\ raw.target > raw.entry_price

TradeInputValid(raw) ==
    /\ NormalizedTicker(raw.ticker) # <<>>
    /\ raw.entry_price > 0
    /\ raw.stop_loss > 0
    /\ raw.stop_loss < raw.entry_price
    /\ raw.target > 0
    /\ raw.target > raw.entry_price

TradeInput(raw) ==
    [ticker |-> NormalizedTicker(raw.ticker),
     entry_price |-> raw.entry_price,
     stop_loss |-> raw.stop_loss,
     target |-> raw.target]

(***************************************************************************)
(* TradeValidator.  stop_loss_percent and risk_reward_ratio are fractions  *)
(* [num, den]; the comparisons with 0.08 and 1.33 are cross-multiplied.    *)
(***************************************************************************)
Zero == [num |-> 0, den |-> 1]

\* Mutant of LiquidityFails: the boundary (exactly the minimum) is refused.
LiquidityFailsAtBoundary(daily_liquidity) == daily_liquidity <= MIN_LIQUIDITY

\* if daily_liquidity < self.MIN_LIQUIDITY
LiquidityFails(daily_liquidity) == daily_liquidity < MIN_LIQUIDITY

\* stop_loss_percent = abs((stop_loss - entry_price) / entry_price)
StopLossPercent(trade) ==
    [num |-> Abs(trade.stop_loss - trade.entry_price), den |-> trade.entry_price]

\* if stop_loss_percent > self.MAX_STOP_LOSS
StopLossFails(trade) ==
    StopLossPercent(trade).num * PercentBase
        > MAX_STOP_LOSS * StopLossPercent(trade).den

\* risk_reward_ratio = reward / risk if risk > 0 else 0
RiskRewardRatio(trade) ==
    LET risk == Abs(trade.entry_price - trade.stop_loss)
        reward == Abs(trade.target - trade.entry_price)
    IN  IF risk > 0 THEN [num |-> reward, den |-> risk] ELSE Zero

\* if risk_reward_ratio < self.MIN_RISK_REWARD
RiskRewardFails(trade) ==
    RiskRewardRatio(trade).num * PercentBase
        < MIN_RISK_REWARD * RiskRewardRatio(trade).den

\* max_quantity = int(avg_volume * 0.01)
MaxQuantity(avg_volume) == TruncDiv(avg_volume * MAX_VOLUME_PERCENT, PercentBase)

\* if not market_data
NoMarketData(market_data) == market_data = None

\* The TechnicalValidation built from a snapshot (rules 1 to 4, then the
\* verdict inserted at the head of the messages).
ApplyRules(trade, market_data) ==
    LET liq == market_data.daily_liquidity
        valid == ~LiquidityFails(liq) /\ ~StopLossFails(trade)
                     /\ ~RiskRewardFails(trade)
    IN  [valid |-> valid,
         daily_liquidity |-> liq,
         stop_loss_percent |-> StopLossPercent(trade),
         risk_reward_ratio |-> RiskRewardRatio(trade),
         max_quantity |-> MaxQuantity(market_data.average_daily_volume),
         messages |->
            << IF valid THEN "approved" ELSE "rejected",
               IF LiquidityFails(liq) THEN "liquidity_fail" ELSE "liquidity_ok",
               IF StopLossFails(trade) THEN "stop_loss_fail" ELSE "stop_loss_ok",
               IF RiskRewardFails(trade) THEN "risk_reward_fail" ELSE "risk_reward_ok",
               "max_quantity_info" >>]

\* Mutant of Unavailable: the verdict line is added and the volume cap kept.
UnavailableWithVerdict ==
    [valid |-> FALSE, daily_liquidity |-> 0, stop_loss_percent |-> Zero,
     risk_reward_ratio |-> Zero, max_quantity |-> 0,
     messages |-> <<"rejected", "could_not_fetch">>]

\* The TechnicalValidation returned when no snapshot came back.
Unavailable ==
    [valid |-> FALSE, daily_liquidity |-> 0, stop_loss_percent |-> Zero,
     risk_reward_ratio |-> Zero, max_quantity |-> 0,
     messages |-> <<"could_not_fetch">>]

\* validate_trade(trade): validation is the value returned; cache, fetched,
\* raised and data are those of the get_ticker_data call it makes.
validate_trade(c, trade, upstream) ==
    LET got == get_ticker_data(c, trade.ticker, upstream)
    IN  [validation |-> IF NoMarketData(got.data)
                        THEN Unavailable
                        ELSE ApplyRules(trade, got.data),
         cache |-> got.cache, fetched |-> got.fetched, raised |-> got.raised,
         data |-> got.data]

\* quick_validate(ticker, entry_price, stop_loss, target): TradeInput is
\* constructed and, if that did not raise, handed to validate_trade.  reached
\* tells whether validate_trade was called, trade with what.
quick_validate(c, raw, upstream) ==
    IF ~TradeInputValid(raw)
    THEN [reached |-> FALSE, valid |-> FALSE, text |-> <<"validation_error">>,
          cache |-> c, fetched |-> FALSE]
    ELSE LET r == validate_trade(c, TradeInput(raw), upstream)
         IN  [reached |-> TRUE, trade |-> TradeInput(raw),
              valid |-> r.validation.valid, text |-> r.validation.messages,
              cache |-> r.cache, fetched |-> r.fetched]

(***************************************************************************)
(* ExcelGenerator.  The clock counts ticks of 1 / TicksPerSecond seconds;  *)
(* strftime("%Y%m%d_%H%M%S") keeps the whole seconds only.  A file name is *)
(* [ticker, timestamp]; a file holds one row per order.                    *)
(***************************************************************************)
TicksPerSecond == 2

\* datetime.now().strftime("%Y%m%d_%H%M%S")
Timestamp(clock) == clock \div TicksPerSecond

\* f"basket_{ticker}_{timestamp}.xlsx"
FileName(ticker, clock) == [ticker |-> ticker, timestamp |-> Timestamp(clock)]

\* order_to_dict: the columns that are not blank.
order_to_dict(order) ==
    [NUMERO_CONTA |-> order.account_number,
     ATIVO |-> order.ticker,
     QUANTIDADE |-> order.quantity,
     TIPO_PRECO |-> order.price_type,
     PRECO_LIMITE |-> order.limit_price]

\* Mutant of generate_excel: the empty list is written like any other.
generate_excel_unchecked(fs, orders, ticker, clock) ==
    LET name == FileName(ticker, clock)
        rows == [i \in 1..Len(orders) |-> order_to_dict(orders[i])]
    IN  [raised |-> FALSE, path |-> name,
         files |-> [f \in DOMAIN fs \cup {name} |->
                       IF f = name THEN [rows |-> rows, mtime |-> clock]
                       ELSE fs[f]]]

\* generate_excel(orders, ticker): raised when orders is empty; otherwise
\* the file is written (an existing file of that name is replaced).  A file
\* is its rows and the modification time the file system gives it.
generate_excel(fs, orders, ticker, clock) ==
    IF orders = <<>>
    THEN [raised |-> TRUE, files |-> fs]
    ELSE LET name == FileName(ticker, clock)
             rows == [i \in 1..Len(orders) |-> order_to_dict(orders[i])]
         IN  [raised |-> FALSE, path |-> name,
              files |-> [f \in DOMAIN fs \cup {name} |->
                            IF f = name THEN [rows |-> rows, mtime |-> clock]
                            ELSE fs[f]]]

\* The files of the output directory written for one ticker.
FilesOf(fs, ticker) == {f \in DOMAIN fs : f.ticker = ticker}

(***************************************************************************)
(* main.py: the HTTP handlers.  Each returns the response and the state    *)
(* the request leaves behind.                                              *)
(***************************************************************************)

\* GET /api/market-data/{ticker}
get_market_data(c, ticker, upstream) ==
    LET got == get_ticker_data(c, ticker, upstream)
    IN  [status |-> IF got.data = None THEN 404 ELSE 200,
         body |-> got.data,
         cache |-> got.cache, fetched |-> got.fetched, raised |-> got.raised]

\* The characters of a file name between "basket_" and ".xlsx": the ticker,
\* "_", and the timestamp, whose two digit groups are written "D".
NameStem(name) == name.ticker \o <<"_", "D", "_", "D">>

IsPrefix(a, b) == Len(a) <= Len(b) /\ SubSeq(b, 1, Len(a)) = a

\* OUTPUT_DIR.glob(f"basket_{ticker}_*.xlsx"): the names that start with
\* basket_{ticker}_ ; characters are compared as they are (POSIX paths).
GlobMatches(ticker, name) == IsPrefix(Append(ticker, "_"), NameStem(name))

\* max(files, key=lambda p: p.stat().st_mtime): among equal times the first
\* of the listing, which may be any of them.
MostRecent(fs, matched) ==
    {f \in matched : \A g \in matched : fs[g].mtime <= fs[f].mtime}

\* GET /api/download-excel/{ticker}: the responses the handler may give.
download_excel(fs, ticker) ==
    LET matched == {f \in DOMAIN fs : GlobMatches(ticker, f)}
    IN  IF matched = {}
        THEN {[status |-> 404]}
        ELSE {[status |-> 200, path |-> f] : f \in MostRecent(fs, matched)}

\* Client(...) for each row of the uploaded file; a row that raises is skipped.
RECURSIVE ParseRows(_)
ParseRows(rows) ==
    IF rows = <<>> THEN <<>>
    ELSE IF Head(rows).malformed
         THEN ParseRows(Tail(rows))
         ELSE <<Head(rows).client>> \o ParseRows(Tail(rows))

\* Mutant of RejectedBasket: the rejected trade still reports the clients.
RejectedBasketCounted(validation) ==
    [status |-> 200, trade_valid |-> FALSE, technical_validation |-> validation,
     orders |-> <<>>, total_clients |-> 0, total_orders |-> 1,
     total_invested_amount |-> 0]

\* The BasketOutput returned when not validation.valid (summary = {}).
RejectedBasket(validation) ==
    [status |-> 200, trade_valid |-> FALSE, technical_validation |-> validation,
     orders |-> <<>>, total_clients |-> 0, total_orders |-> 0,
     total_invested_amount |-> 0]

\* POST /api/gerar-basket, after TradeInput was constructed: the response,
\* the cache and the files afterwards; written, the name of the file
\* generate_excel wrote (None when it wrote none); validation, fetched,
\* raised and data, those of the validate_trade call it makes.
gerar_basket(c, fs, clock, trade, file, upstream) ==
    LET v == validate_trade(c, trade, upstream)
        untouched == [cache |-> v.cache, files |-> fs, written |-> None,
                      fetched |-> v.fetched, raised |-> v.raised,
                      data |-> v.data, validation |-> v.validation]
    IN  IF ~v.validation.valid
        THEN [response |-> RejectedBasket(v.validation)] @@ untouched
        ELSE IF file.unreadable
        THEN [response |-> [status |-> 500]] @@ untouched
        ELSE LET clients == ParseRows(file.rows)
                 eligible_clients == filter_eligible_clients(clients).eligible
                 orders == generate_basket(trade, eligible_clients, v.validation)
                 excel == IF orders # <<>>
                          THEN generate_excel(fs, orders, trade.ticker, clock)
                          ELSE [raised |-> FALSE, path |-> None, files |-> fs]
                 summary == calculate_summary(orders)
                 after == [cache |-> v.cache, files |-> excel.files,
                           written |-> excel.path,
                           fetched |-> v.fetched, raised |-> v.raised,
                           data |-> v.data, validation |-> v.validation]
             IN  IF excel.raised \/ summary.raised
                 THEN [response |-> [status |-> 500]] @@ after
                 ELSE [response |->
                          [status |-> 200, trade_valid |-> TRUE,
                           technical_validation |-> v.validation,
                           orders |-> orders,
                           total_clients |-> Len(clients),
                           total_orders |-> Len(orders),
                           total_invested_amount |-> summary.total_invested,
                           summary |-> summary]] @@ after

(***************************************************************************)
(* Inputs.                                                                 *)
(***************************************************************************)
\* What the upstream provider may answer.
Upstreams ==
    {[kind |-> "raise"], [kind |-> "empty"]}
    \cup {[kind |-> "data", avg_volume |-> h[1], avg_price |-> h[2]] :
            h \in {<<2000000, 25>>, <<1000000, 30>>, <<999999, 30>>, <<99, 400000>>}}

\* Trade fields as they arrive, before TradeInput validates them.
RawTrades ==
    [ticker : {<<"p">>, <<" ">>},
     entry_price : {100, 2000},
     stop_loss : {0, 91, 92, 1840, 1900, 2000},
     target : {110, 111, 2132, 2133, 2300}]

Trades == {TradeInput(raw) : raw \in {r \in RawTrades : TradeInputValid(r)}}

\* Capital figures of the clients handed to the calculator directly.
ClientProfiles ==
    [net_total : {-30, 15000, 20000, 40003},
     net_available : {-25, 0, 9999, 10000, 50000}]

AccountOf(i) == <<"A", i>>

\* Client lists of up to MaxClients clients; the account number is the row.
ClientLists ==
    UNION {{[i \in 1..n |-> [account_number |-> AccountOf(i),
                             net_total |-> f[i].net_total,
                             net_available |-> f[i].net_available]] :
               f \in [1..n -> ClientProfiles]} : n \in 0..MaxClients}

EntryPrices == {7, 10, 25000}

MaxQuantities == {0, 300, 20000}

\* Requests of the HTTP API.
ApiTickers == {<<"P">>, <<"P", ".SA">>, <<"p">>}

DownloadTickers == {<<"P">>, <<"p">>, <<"V">>}

ApiUpstreams ==
    {[kind |-> "raise"], [kind |-> "empty"],
     [kind |-> "data", avg_volume |-> 2000000, avg_price |-> 25],
     [kind |-> "data", avg_volume |-> 999999, avg_price |-> 30]}

ApiRawTrades ==
    {[ticker |-> <<"p">>, entry_price |-> 2000, stop_loss |-> 1900, target |-> 2300],
     [ticker |-> <<"P">>, entry_price |-> 100, stop_loss |-> 91, target |-> 111],
     [ticker |-> <<" ">>, entry_price |-> 100, stop_loss |-> 92, target |-> 111]}

ApiRow(i, net_total, net_available) ==
    [malformed |-> FALSE,
     client |-> [account_number |-> AccountOf(i), net_total |-> net_total,
                 net_available |-> net_available]]

ApiFiles ==
    {[unreadable |-> TRUE],
     [unreadable |-> FALSE, rows |-> <<>>],
     [unreadable |-> FALSE,
      rows |-> <<ApiRow(1, 15000, 15000), [malformed |-> TRUE],
                 ApiRow(3, 20000, 10000)>>],
     [unreadable |-> FALSE,
      rows |-> <<ApiRow(1, 40003, 50000), ApiRow(2, 20000, 9999)>>]}

GenTickers == {TradeInput(raw).ticker : raw \in {r \in ApiRawTrades : TradeInputValid(r)}}

(***************************************************************************)
(* The service: the state after start-up and one action per request.       *)
(***************************************************************************)
Init ==
    /\ cache = EmptyCache
    /\ files = <<>>
    /\ generated = [t \in GenTickers |-> 0]
    /\ now = 0
    /\ resp = [op |-> "none", seq |-> 0]
    /\ input = [kind |-> "none"]
    /\ pc = "serving"

\* The response of one request; seq flips with every request served.
Served(op, fields) == [op |-> op, seq |-> 1 - resp.seq] @@ fields

\* Time passes between requests.
Tick ==
    /\ now < MaxClock
    /\ now' = now + 1
    /\ UNCHANGED <<cache, files, generated, resp, input, pc>>

GetMarketData ==
    \E ticker \in ApiTickers, upstream \in ApiUpstreams :
        \E r \in {get_market_data(cache, ticker, upstream)} :
            /\ cache' = r.cache
            /\ resp' = Served("get_market_data",
                          [ticker |-> ticker, status |-> r.status, body |-> r.body,
                           data |-> r.body, fetched |-> r.fetched, raised |-> r.raised])
            /\ UNCHANGED <<files, generated, now, input, pc>>

ValidateTrade ==
    \E raw \in ApiRawTrades, upstream \in ApiUpstreams :
        IF ~TradeInputValid(raw)
        THEN /\ resp' = Served("validate_trade", [status |-> 422])
             /\ UNCHANGED <<cache, files, generated, now, input, pc>>
        ELSE \E r \in {validate_trade(cache, TradeInput(raw), upstream)} :
                 /\ cache' = r.cache
                 /\ resp' = Served("validate_trade",
                               [ticker |-> TradeInput(raw).ticker, status |-> 200,
                                body |-> r.validation, data |-> r.data,
                                fetched |-> r.fetched, raised |-> r.raised])
                 /\ UNCHANGED <<files, generated, now, input, pc>>

GerarBasketFrom(raws, uploads, upstreams) ==
    \E raw \in raws, file \in uploads, upstream \in upstreams :
        IF ~TradeInputValid(raw)
        THEN /\ resp' = Served("gerar_basket", [status |-> 422])
             /\ UNCHANGED <<cache, files, generated, now, input, pc>>
        ELSE \E trade \in {TradeInput(raw)} :
             \E r \in {gerar_basket(cache, files, now, trade, file, upstream)} :
                 /\ r.written # None => generated[trade.ticker] < MaxGenerations
                 /\ cache' = r.cache
                 /\ files' = r.files
                 /\ generated' =
                        IF r.written # None
                        THEN [generated EXCEPT ![trade.ticker] = @ + 1]
                        ELSE generated
                 /\ resp' = Served("gerar_basket",
                               [ticker |-> trade.ticker, body |-> r.response,
                                status |-> r.response.status,
                                written |-> r.written, data |-> r.data,
                                validation |-> r.validation,
                                fetched |-> r.fetched, raised |-> r.raised])
                 /\ UNCHANGED <<now, input, pc>>

GerarBasket == GerarBasketFrom(ApiRawTrades, ApiFiles, ApiUpstreams)

\* DELETE /api/cache/clear
ClearCache ==
    /\ cache' = clear_cache(cache)
    /\ resp' = Served("clear_cache", [status |-> 200])
    /\ UNCHANGED <<files, generated, now, input, pc>>

DownloadExcel ==
    \E ticker \in DownloadTickers :
        \E r \in download_excel(files, ticker) :
            /\ resp' = Served("download_excel", [ticker |-> ticker] @@ r)
            /\ UNCHANGED <<cache, files, generated, now, input, pc>>

Next ==
    \/ Tick \/ GetMarketData \/ ValidateTrade \/ GerarBasket \/ ClearCache
    \/ DownloadExcel

Spec == Init /\ [][Next]_vars

(***************************************************************************)
(* Direct calls of BasketCalculator: the arguments are drawn at the start  *)
(* and one method is applied to them.                                      *)
(***************************************************************************)
InitCalc ==
    /\ cache = EmptyCache
    /\ files = <<>>
    /\ generated = [t \in GenTickers |-> 0]
    /\ now = 0
    /\ resp = [op |-> "none", seq |-> 0]
    /\ input \in [clients : ClientLists, entry_price : EntryPrices,
                  max_quantity : MaxQuantities]
    /\ pc = "ready"

CalculateShareQuantity ==
    /\ pc = "ready"
    /\ \E i \in 1..Len(input.clients) :
        \E a \in {calculate_share_quantity(input.clients[i], input.entry_price,
                                           input.max_quantity)} :
            resp' = Served("calculate_share_quantity",
                      [client |-> input.clients[i],
                       quantity |-> a.quantity,
                       invested_amount |-> a.invested_amount,
                       clamped |-> ClampTaken(input.clients[i], input.entry_price,
                                              input.max_quantity)])
    /\ pc' = "done"
    /\ UNCHANGED <<cache, files, generated, now, input>>

FilterEligibleClients ==
    /\ pc = "ready"
    /\ \E r \in {filter_eligible_clients(input.clients)} :
            resp' = Served("filter_eligible_clients",
                      [eligible |-> r.eligible, messages |-> r.messages])
    /\ pc' = "done"
    /\ UNCHANGED <<cache, files, generated, now, input>>

GenerateBasket ==
    /\ pc = "ready"
    /\ resp' = Served("generate_basket",
                 [orders |-> generate_basket(
                                [ticker |-> <<"P">>, entry_price |-> input.entry_price],
                                input.clients,
                                [max_quantity |-> input.max_quantity])])
    /\ pc' = "done"
    /\ UNCHANGED <<cache, files, generated, now, input>>

NextCalc == CalculateShareQuantity \/ FilterEligibleClients \/ GenerateBasket

SpecCalc == InitCalc /\ [][NextCalc]_vars

(***************************************************************************)
(* Direct calls of TradeValidator.validate_trade on a service whose cache  *)
(* is empty: the trade and the provider's answer are drawn at the start.   *)
(***************************************************************************)
InitValidate ==
    /\ cache = EmptyCache
    /\ files = <<>>
    /\ generated = [t \in GenTickers |-> 0]
    /\ now = 0
    /\ resp = [op |-> "none", seq |-> 0]
    /\ input \in [trade : Trades, upstream : Upstreams]
    /\ pc = "ready"

CallValidateTrade ==
    /\ pc = "ready"
    /\ \E r \in {validate_trade(cache, input.trade, input.upstream)} :
        /\ cache' = r.cache
        /\ resp' = Served("validate_trade",
                      [ticker |-> input.trade.ticker, status |-> 200,
                       body |-> r.validation, data |-> r.data,
                       fetched |-> r.fetched, raised |-> r.raised])
    /\ pc' = "done"
    /\ UNCHANGED <<files, generated, now, input>>

NextValidate == CallValidateTrade

SpecValidate == InitValidate /\ [][NextValidate]_vars

(***************************************************************************)
(* Direct calls of BasketCalculator.calculate_summary: the order list is   *)
(* drawn at the start.  Only the fields the method reads are given.        *)
(***************************************************************************)
MaxOrders == 2

OrderKinds ==
    {[quantity |-> q] : q \in {1, 10}}
    \cup [quantity : {1, 10}, invested_amount : {0, 70, 200}]

OrderLists == UNION {[1..n -> OrderKinds] : n \in 0..MaxOrders}

InitSummary ==
    /\ cache = EmptyCache
    /\ files = <<>>
    /\ generated = [t \in GenTickers |-> 0]
    /\ now = 0
    /\ resp = [op |-> "none", seq |-> 0]
    /\ input \in [orders : OrderLists]
    /\ pc = "ready"

CallCalculateSummary ==
    /\ pc = "ready"
    /\ \E r \in {calculate_summary(input.orders)} :
            resp' = Served("calculate_summary", [summary |-> r])
    /\ pc' = "done"
    /\ UNCHANGED <<cache, files, generated, now, input>>

NextSummary == CallCalculateSummary

SpecSummary == InitSummary /\ [][NextSummary]_vars

(***************************************************************************)
(* Direct calls of TradeValidator.quick_validate with unvalidated fields.  *)
(***************************************************************************)
TradeFields ==
    [ticker : {<<>>, <<" ">>, <<"p">>, <<" ", "p", " ">>},
     entry_price : {-5, 0, 100},
     stop_loss : {-1, 0, 92, 100, 120},
     target : {0, 90, 100, 111}]

InitQuick ==
    /\ cache = EmptyCache
    /\ files = <<>>
    /\ generated = [t \in GenTickers |-> 0]
    /\ now = 0
    /\ resp = [op |-> "none", seq |-> 0]
    /\ input \in [raw : TradeFields,
                  upstream : {[kind |-> "raise"],
                              [kind |-> "data", avg_volume |-> 2000000,
                               avg_price |-> 25]}]
    /\ pc = "ready"

CallQuickValidate ==
    /\ pc = "ready"
    /\ \E r \in {quick_validate(cache, input.raw, input.upstream)} :
        /\ cache' = r.cache
        /\ resp' = Served("quick_validate",
                      IF r.reached
                      THEN [reached |-> TRUE, trade |-> r.trade, valid |-> r.valid,
                            text |-> r.text, fetched |-> r.fetched]
                      ELSE [reached |-> FALSE, valid |-> r.valid,
                            text |-> r.text, fetched |-> r.fetched])
    /\ pc' = "done"
    /\ UNCHANGED <<files, generated, now, input>>

NextQuick == CallQuickValidate

SpecQuick == InitQuick /\ [][NextQuick]_vars

(***************************************************************************)
(* The service with ExcelGenerator.generate_excel also called directly, on *)
(* any order list, the empty one included.                                 *)
(***************************************************************************)
ExcelOrder(i, quantity) ==
    [account_number |-> AccountOf(i), ticker |-> <<"P">>,
     quantity |-> quantity, price_type |-> "l", limit_price |-> 2000,
     invested_amount |-> quantity * 2000]

ExcelOrderLists ==
    {<<>>, <<ExcelOrder(1, 5)>>, <<ExcelOrder(1, 5), ExcelOrder(2, 10)>>}

CallGenerateExcel ==
    \E orders \in ExcelOrderLists, ticker \in GenTickers :
        \E r \in {generate_excel(files, orders, ticker, now)} :
            /\ ~r.raised => generated[ticker] < MaxGenerations
            /\ files' = r.files
            /\ generated' =
                   IF r.raised THEN generated
                   ELSE [generated EXCEPT ![ticker] = @ + 1]
            /\ resp' = Served("generate_excel",
                          [orders |-> orders, raised |-> r.raised])
            /\ UNCHANGED <<cache, now, input, pc>>

\* Uploads and provider answers that leave a valid trade without orders: a
\* file whose only client is refused, a ticker of which no share may be
\* bought (max_quantity = 0).
ExcelFiles ==
    ApiFiles \cup {[unreadable |-> FALSE, rows |-> <<ApiRow(1, 15000, 15000)>>]}

ExcelUpstreams ==
    ApiUpstreams \cup {[kind |-> "data", avg_volume |-> 99, avg_price |-> 400000]}

GerarBasketAny == GerarBasketFrom(ApiRawTrades, ExcelFiles, ExcelUpstreams)

NextExcel == Tick \/ GerarBasketAny \/ CallGenerateExcel

SpecExcel == Init /\ [][NextExcel]_vars

(***************************************************************************)
(* Direct calls of BasketCalculator on clients at and around the           *)
(* eligibility thresholds, with capital large enough for the float         *)
(* quotient and product to be rounded.                                     *)
(***************************************************************************)
SizingProfiles ==
    [net_total : {15000, 20000, 196612},
     net_available : {9999, 10000, 98306}]

SizingClientLists ==
    UNION {{[i \in 1..n |-> [account_number |-> AccountOf(i),
                             net_total |-> f[i].net_total,
                             net_available |-> f[i].net_available]] :
               f \in [1..n -> SizingProfiles]} : n \in 0..MaxClients}

SizingPrices == {3, 7, 25000}

SizingMaxQuantities == {0, 300, 40000}

InitSizing ==
    /\ cache = EmptyCache
    /\ files = <<>>
    /\ generated = [t \in GenTickers |-> 0]
    /\ now = 0
    /\ resp = [op |-> "none", seq |-> 0]
    /\ input \in [clients : SizingClientLists, entry_price : SizingPrices,
                  max_quantity : SizingMaxQuantities]
    /\ pc = "ready"

NextSizing == CalculateShareQuantity \/ FilterEligibleClients \/ GenerateBasket

SpecSizing == InitSizing /\ [][NextSizing]_vars

(***************************************************************************)
(* Claims.                                                                 *)
(***************************************************************************)

\* C1: whatever the client's net total and net available, for entry_price > 0
\* and max_quantity >= 0 the invested amount returned by
\* calculate_share_quantity is never greater than the client's net available.
C1_InvestedWithinAvailable ==
    resp.op = "calculate_share_quantity"
        => resp.invested_amount <= resp.client.net_available

\* C2: every order generate_basket returns has quantity > 0, and a client
\* whose computed quantity is not positive is allocated (0, 0).
C2_OrdersPositive ==
    /\ resp.op = "generate_basket"
        => \A i \in 1..Len(resp.orders) : resp.orders[i].quantity > 0
    /\ resp.op = "calculate_share_quantity" /\ resp.quantity <= 0
        => resp.quantity = 0 /\ resp.invested_amount = 0

\* C3: on the normal path and on the safety-clamp path alike, the quantity
\* returned is at most max_quantity and at most
\* floor(0.50 * net_total / entry_price).
C3_QuantityFloorAndCap ==
    resp.op = "calculate_share_quantity"
        => /\ resp.quantity <= input.max_quantity
           /\ resp.quantity <= (resp.client.net_total * 50)
                                   \div (input.entry_price * 100)

C5_EligibleExactly ==
    resp.op = "filter_eligible_clients"
        => LET ok(c) == c.net_total >= 20000 /\ 2 * c.net_available >= c.net_total
           IN  /\ resp.eligible = SelectSeq(input.clients, ok)
               /\ Len(resp.messages) = Len(input.clients)
               /\ \A i \in 1..Len(input.clients) :
                    /\ resp.messages[i].account_number
                           = input.clients[i].account_number
                    /\ resp.messages[i].kind = "eligible" <=> ok(input.clients[i])

\* C5 witness: a list whose first client is refused and whose second, on
\* both boundaries (20,000 and exactly half available), is accepted.
C5_Witness ==
    /\ resp.op = "filter_eligible_clients"
    /\ Len(input.clients) = 2
    /\ input.clients[1].net_total = 40003 /\ input.clients[1].net_available = 10000
    /\ input.clients[2].net_total = 20000 /\ input.clients[2].net_available = 10000
    /\ resp.eligible = <<input.clients[2]>>

\* C6: GET /api/market-data/{ticker} answers 404 only when the provider
\* returned no data; an exception raised while fetching is answered 500.
C6_TransportFailureIs500 ==
    resp.op = "get_market_data"
        => /\ resp.status = 404 => ~resp.raised
           /\ resp.raised => resp.status = 500

\* C7: a cached ticker is served from the cache, with or without the
\* exchange suffix, without calling the provider and with the snapshot that
\* was cached, however much time passes; entries leave the cache only when
\* clear_cache runs, which empties it (twice as once); a ticker that is not
\* cached is fetched from the provider.
C7_CacheUntilCleared ==
    [][ /\ resp'.seq = resp.seq => cache' = cache
        /\ resp'.seq # resp.seq /\ resp'.op = "clear_cache"
            => cache' = EmptyCache
        /\ resp'.seq # resp.seq /\ resp'.op # "clear_cache"
            => \A k \in DOMAIN cache : k \in DOMAIN cache' /\ cache'[k] = cache[k]
        /\ resp'.seq # resp.seq
             /\ resp'.op \in {"get_market_data", "validate_trade", "gerar_basket"}
             /\ resp'.status # 422
            => IF TickerB3(resp'.ticker) \in DOMAIN cache
               THEN /\ ~resp'.fetched
                    /\ resp'.data = cache[TickerB3(resp'.ticker)]
                    /\ cache' = cache
               ELSE resp'.fetched
      ]_vars

\* C7 witness: a snapshot cached by a request for P is returned, without a
\* fetch, to a request for P.SA.
C7_Witness ==
    /\ resp.op = "get_market_data"
    /\ resp.ticker = <<"P", ".SA">>
    /\ ~resp.fetched
    /\ resp.data # None
    /\ resp.data.ticker = <<"P">>

\* C8: after n successful generate_excel calls for a ticker, n files of that
\* ticker exist: every call writes a new file and replaces none.
C8_FilesCoexist ==
    \A t \in GenTickers : Cardinality(FilesOf(files, t)) = generated[t]

\* C9: when validation returns valid = false, POST /api/gerar-basket answers
\* 200 with trade_valid = false, no orders, total_orders = 0 and
\* total_invested_amount = 0, writes no file and leaves the files as they were.
C9_RejectedTradeWritesNothing ==
    [][ /\ resp'.seq # resp.seq
        /\ resp'.op = "gerar_basket"
        /\ resp'.status # 422
        /\ ~resp'.validation.valid
        => /\ resp'.status = 200
           /\ resp'.body.trade_valid = FALSE
           /\ resp'.body.orders = <<>>
           /\ resp'.body.total_orders = 0
           /\ resp'.body.total_invested_amount = 0
           /\ resp'.body.technical_validation = resp'.validation
           /\ resp'.written = None
           /\ files' = files
           /\ generated' = generated
      ]_vars

\* C9 witness: a trade rejected by a rule (market data was there) after a
\* file had been generated.
C9_Witness ==
    /\ resp.op = "gerar_basket"
    /\ resp.status = 200
    /\ ~resp.validation.valid
    /\ resp.data # None
    /\ DOMAIN files # {}

\* C10: when get_ticker_data yields no snapshot, validate_trade returns
\* valid = false, the four figures 0 and exactly one message, none of them a
\* rule's.
C10_NoSnapshotShortCircuits ==
    resp.op \in {"validate_trade", "gerar_basket"} /\ resp.status # 422
        => LET v == IF resp.op = "validate_trade" THEN resp.body
                    ELSE resp.validation
           IN  resp.data = None
                 => /\ v.valid = FALSE
                    /\ v.daily_liquidity = 0
                    /\ v.stop_loss_percent.num = 0
                    /\ v.risk_reward_ratio.num = 0
                    /\ v.max_quantity = 0
                    /\ v.messages = <<"could_not_fetch">>

\* C10 witness: the provider raised for a trade that passes rules 2 and 3.
C10_Witness ==
    /\ resp.op = "validate_trade"
    /\ resp.status = 200
    /\ resp.data = None
    /\ resp.raised
    /\ resp.ticker = <<"P">>
    /\ Len(resp.body.messages) = 1

\* C11: calculate_summary returns a result for every order list: all six
\* aggregates 0 for the empty list; otherwise total_orders the number of
\* orders, total_shares the sum of the quantities, total_invested the sum of
\* the invested amounts, and average, min and max taken over the orders
\* whose invested amount is present, also when some or all orders have none.
C11_SummaryAlwaysReturned ==
    resp.op = "calculate_summary"
        => /\ ~resp.summary.raised
           /\ resp.summary.total_orders = Len(input.orders)
           /\ resp.summary.total_shares
                  = SumSeq([i \in 1..Len(input.orders) |-> input.orders[i].quantity])
           /\ resp.summary.total_invested
                  = SumSeq([i \in 1..Len(input.orders) |->
                              IF "invested_amount" \in DOMAIN input.orders[i]
                              THEN input.orders[i].invested_amount ELSE 0])
           /\ input.orders = <<>>
                => /\ resp.summary.average_investment.num = 0
                   /\ resp.summary.min_investment = 0
                   /\ resp.summary.max_investment = 0

\* C12: TradeInput is not constructed from a non-positive price, an empty
\* ticker, stop >= entry or target <= entry, so such a trade never reaches
\* validate_trade; every TradeInput constructed has 0 < stop < entry < target
\* and a non-empty upper-case ticker.
C12_MalformedTradeRejected ==
    resp.op = "quick_validate"
        => LET raw == input.raw
               malformed == \/ raw.entry_price <= 0
                            \/ raw.stop_loss <= 0
                            \/ raw.target <= 0
                            \/ raw.ticker = <<>>
                            \/ raw.stop_loss >= raw.entry_price
                            \/ raw.target <= raw.entry_price
           IN  /\ malformed
                    => /\ ~resp.reached
                       /\ ~resp.valid
                       /\ ~resp.fetched
                       /\ cache = EmptyCache
               /\ resp.reached
                    => /\ 0 < resp.trade.stop_loss
                       /\ resp.trade.stop_loss < resp.trade.entry_price
                       /\ resp.trade.entry_price < resp.trade.target
                       /\ resp.trade.ticker # <<>>
                       /\ \A i \in 1..Len(resp.trade.ticker) :
                            resp.trade.ticker[i] \notin {"p", "v", ".sa", " "}

\* C12 witness: fields with a padded lower-case ticker are accepted and the
\* trade that reaches validate_trade carries the ticker P.
C12_Witness ==
    /\ resp.op = "quick_validate"
    /\ resp.reached
    /\ input.raw.ticker = <<" ", "p", " ">>
    /\ resp.trade.ticker = <<"P">>
    /\ resp.trade.stop_loss = 92

\* C13: GET /api/download-excel/{ticker} returns the file most recently
\* generated for that very ticker, and answers 404 exactly when no file has
\* been generated for that ticker.
C13_DownloadLatestOfTicker ==
    resp.op = "download_excel"
        => LET t == NormalizedTicker(resp.ticker)
               n == IF t \in GenTickers THEN generated[t] ELSE 0
           IN  /\ resp.status = 404 <=> n = 0
               /\ resp.status = 200
                    => /\ resp.path.ticker = t
                       /\ \A f \in FilesOf(files, t) :
                            files[f].mtime <= files[resp.path].mtime

\* C14: no file with zero rows is ever written.  generate_excel called with
\* an empty order list raises and leaves the files as they were; every file
\* there is holds at least one row; and a gerar-basket request for a valid
\* trade that yields no order answers 200 with an empty order list and
\* writes nothing.
C14_NoEmptyFile ==
    [][ /\ \A f \in DOMAIN files' : Len(files'[f].rows) >= 1
        /\ resp'.seq # resp.seq /\ resp'.op = "generate_excel"
              /\ resp'.orders = <<>>
           => resp'.raised /\ files' = files
        /\ resp'.seq # resp.seq /\ resp'.op = "gerar_basket"
              /\ resp'.status # 422 /\ resp'.validation.valid
              /\ resp'.written = None /\ resp'.status # 500
           => /\ resp'.status = 200
              /\ resp'.body.trade_valid
              /\ resp'.body.orders = <<>>
              /\ resp'.body.total_orders = 0
              /\ files' = files
        /\ resp'.seq # resp.seq /\ resp'.op = "gerar_basket"
              /\ resp'.status = 200 /\ resp'.body.orders = <<>>
           => files' = files
      ]_vars

\* C14 witness: files exist, and a valid trade whose eligible client was
\* allotted zero shares (max_quantity = 0) was answered 200 without orders.
C14_Witness ==
    /\ DOMAIN files # {}
    /\ resp.op = "gerar_basket"
    /\ resp.status = 200
    /\ resp.body.trade_valid
    /\ resp.body.total_clients = 2
    /\ resp.validation.max_quantity = 0
    /\ resp.body.orders = <<>>
    /\ resp.written = None

\* C15: for a client filter_eligible_clients accepts, with entry_price > 0
\* and max_quantity >= 0, calculate_share_quantity never takes the safety
\* clamp: the quantity is min(floor(0.50 * net_total / entry_price),
\* max_quantity) and the invested amount is at most net_available.
C15_ClampNeverTaken ==
    /\ resp.op = "calculate_share_quantity"
    /\ filter_eligible_clients(<<resp.client>>).eligible # <<>>
    => /\ ~resp.clamped
       /\ resp.quantity =
            Min((resp.client.net_total * 50) \div (input.entry_price * 100),
                input.max_quantity)
       /\ resp.invested_amount <= resp.client.net_available

====
